---- MODULE Spec2Model ----
(***************************************************************************)
(* Model of monitoring/pg_ha_monitor.py: the health evaluation of a       *)
(* pg_auto_failover cluster (PGHAMonitor.perform_health_check) and the     *)
(* alert decision with its cooldown bookkeeping (PGHAMonitor.check_alerts).*)
(*                                                                         *)
(* Python's Optional values are modelled as sequences of length 0 or 1:   *)
(* None is <<>> and a present value v is <<v>>.                            *)
(***************************************************************************)
EXTENDS Integers, Sequences, FiniteSets, TLC

None == <<>>
Some(v) == <<v>>
IsNone(o) == o = <<>>
Val(o) == o[1]

(***************************************************************************)
(* Bounds of the model.                                                    *)
(***************************************************************************)
\* most rows pgautofailover.node returns in one topology
MaxNodes == 2
\* the clock stops advancing after this many seconds
MaxClock == 400
\* most URLs in config['alerting']['webhook_urls']
MaxWebhooks == 2

(***************************************************************************)
(* Enumerations and inputs.                                                *)
(***************************************************************************)
\* reportedstate values: the six codes of NodeState and one code outside it
StateCodes == -1 .. 5

\* what the health queries of check_node_health meet on a node
ProbeOutcomes == {"ok", "cannot_connect", "no_response", "exception"}

NodeStateOutOfRangeIsPrimary(state_code) ==
    CASE state_code = -1 -> "UNKNOWN"
      [] state_code = 0  -> "DRAINING"
      [] state_code = 1  -> "WAIT_STANDBY"
      [] state_code = 2  -> "SECONDARY"
      [] state_code = 3  -> "PRIMARY"
      [] state_code = 4  -> "SINGLE"
      [] OTHER           -> "PRIMARY"

\* class NodeState(Enum): NodeState(code) raises ValueError outside -1..4 and
\* perform_health_check maps that to UNKNOWN
NodeState(state_code) ==
    CASE state_code = -1 -> "UNKNOWN"
      [] state_code = 0  -> "DRAINING"
      [] state_code = 1  -> "WAIT_STANDBY"
      [] state_code = 2  -> "SECONDARY"
      [] state_code = 3  -> "PRIMARY"
      [] state_code = 4  -> "SINGLE"
      [] OTHER           -> "UNKNOWN"

\* the states perform_health_check treats as replicas
ReplicaStates == {"SECONDARY", "WAIT_STANDBY"}

\* nodename of the i-th row of the topology (ORDER BY nodeid)
NodeName(i) == "node" \o ToString(i)

\* the node names a topology of at most MaxNodes rows uses
NodeNames == {NodeName(i) : i \in 1 .. MaxNodes}

\* Python truthiness of an Optional[int]: None and 0 are falsy
Truthy(lag) == ~IsNone(lag) /\ Val(lag) # 0

(***************************************************************************)
(* check_node_health: (HealthStatus, message) for one node.  The probe is  *)
(* what the connection attempt and the queries meet.                       *)
(***************************************************************************)
check_node_health(node_info) ==
    CASE node_info.probe = "cannot_connect" ->
            <<"UNHEALTHY", "Cannot connect to node">>
      [] node_info.probe = "no_response" ->
            <<"UNHEALTHY", "No response from PostgreSQL">>
      [] node_info.probe = "exception" ->
            <<"UNHEALTHY", "Health check failed: error">>
      [] OTHER ->
            <<"HEALTHY", "PostgreSQL 16">>

\* get_replication_status: None when the connection or the query failed,
\* else the rows of pg_stat_replication (their replay_lag_bytes)
get_replication_status(node_info) == node_info.replication

(***************************************************************************)
(* The loop over the replication rows of one replica (lines 373-378):      *)
(* acc = [max_lag, replication_lag].                                       *)
(***************************************************************************)
SlotStep(acc, lag) ==
    [max_lag |-> IF Truthy(lag) /\ Val(lag) > acc.max_lag
                    THEN Val(lag) ELSE acc.max_lag,
     replication_lag |-> IF Truthy(lag) THEN lag ELSE acc.replication_lag]

RECURSIVE SlotLoop(_, _, _)
SlotLoop(slots, k, acc) ==
    IF k > Len(slots) THEN acc
    ELSE SlotLoop(slots, k + 1, SlotStep(acc, slots[k]))

\* lines 364-365: unhealthy_nodes += 1 for an UNHEALTHY node
CountUnhealthyAll(unhealthy_nodes, health) == unhealthy_nodes + 1

CountUnhealthy(unhealthy_nodes, health) ==
    unhealthy_nodes + (IF health = "UNHEALTHY" THEN 1 ELSE 0)

(***************************************************************************)
(* One iteration of the loop over cluster_state['nodes'] (lines 346-391).  *)
(***************************************************************************)
NodeStep(acc, node_data) ==
    LET state == NodeState(node_data.reportedstate)
        hc == check_node_health(node_data)
        health == hc[1]
        health_message == hc[2]
        is_replica == state \in ReplicaStates
        rep_status == IF is_replica THEN get_replication_status(node_data)
                      ELSE None
        start == [max_lag |-> acc.max_lag, replication_lag |-> None]
        lags == IF is_replica /\ ~IsNone(rep_status) /\ Val(rep_status) # <<>>
                   THEN SlotLoop(Val(rep_status), 1, start)
                   ELSE start
    IN  [nodes |-> Append(acc.nodes,
                     [name |-> node_data.nodename,
                      state |-> state,
                      health |-> health,
                      replication_lag |-> lags.replication_lag]),
         primary_count |-> acc.primary_count
                             + (IF state = "PRIMARY" THEN 1 ELSE 0),
         replica_count |-> acc.replica_count
                             + (IF is_replica THEN 1 ELSE 0),
         unhealthy_nodes |-> CountUnhealthy(acc.unhealthy_nodes, health),
         max_lag |-> lags.max_lag,
         issues |-> IF health = "UNHEALTHY"
                       THEN Append(acc.issues,
                              "Node " \o node_data.nodename \o ": "
                                      \o health_message)
                       ELSE acc.issues]

RECURSIVE NodeLoopStopsAtFailure(_, _, _)
NodeLoopStopsAtFailure(rows, i, acc) ==
    IF i > Len(rows) THEN acc
    ELSE IF check_node_health(rows[i])[1] = "UNHEALTHY"
         THEN NodeStep(acc, rows[i])
    ELSE NodeLoopStopsAtFailure(rows, i + 1, NodeStep(acc, rows[i]))

RECURSIVE NodeLoop(_, _, _)
NodeLoop(rows, i, acc) ==
    IF i > Len(rows) THEN acc
    ELSE NodeLoop(rows, i + 1, NodeStep(acc, rows[i]))

DegradedHealthNoneUnhealthy ==
    [nodes |-> <<>>,
     primary_count |-> 0,
     replica_count |-> 0,
     unhealthy_nodes |-> 0,
     max_replication_lag |-> None,
     failover_ready |-> FALSE,
     issues |-> <<"Cannot connect to pg_auto_failover monitor">>]

DegradedHealthNoIssue ==
    [nodes |-> <<>>,
     primary_count |-> 0,
     replica_count |-> 0,
     unhealthy_nodes |-> 1,
     max_replication_lag |-> None,
     failover_ready |-> FALSE,
     issues |-> <<>>]

\* the snapshot returned when get_cluster_state returned None (lines 327-337)
DegradedHealth ==
    [nodes |-> <<>>,
     primary_count |-> 0,
     replica_count |-> 0,
     unhealthy_nodes |-> 1,
     max_replication_lag |-> None,
     failover_ready |-> FALSE,
     issues |-> <<"Cannot connect to pg_auto_failover monitor">>]

ReadyExprIgnoresHealth(primary_count, replica_count, unhealthy_nodes) ==
    /\ primary_count = 1
    /\ replica_count >= 1

\* failover_ready as first computed (lines 394-398)
ReadyExpr(primary_count, replica_count, unhealthy_nodes) ==
    /\ primary_count = 1
    /\ replica_count >= 1
    /\ unhealthy_nodes = 0

RoleCountIssuesNoElse(issues, primary_count) ==
    LET first == IF primary_count = 0
                    THEN Append(issues, "No primary node found") ELSE issues
    IN  IF primary_count >= 1
           THEN Append(first, "Multiple primary nodes detected") ELSE first

\* the issue appended for a wrong number of primaries (lines 400-405)
RoleCountIssues(issues, primary_count) ==
    IF primary_count = 0 THEN Append(issues, "No primary node found")
    ELSE IF primary_count > 1
         THEN Append(issues, "Multiple primary nodes detected")
    ELSE issues

RoleCountReadySinglePrimary(failover_ready, primary_count) ==
    IF primary_count = 0 THEN FALSE
    ELSE IF primary_count > 1 THEN FALSE
    ELSE TRUE

\* failover_ready after the same two branches (lines 400-405)
RoleCountReady(failover_ready, primary_count) ==
    IF primary_count = 0 THEN FALSE
    ELSE IF primary_count > 1 THEN FALSE
    ELSE failover_ready

\* max_lag if max_lag > 0 else None (line 413)
MaxLagResult(max_lag) == IF max_lag > 0 THEN Some(max_lag) ELSE None

(***************************************************************************)
(* perform_health_check on what get_cluster_state returned: None, or       *)
(* Some(rows).                                                             *)
(***************************************************************************)
perform_health_check(cluster_state) ==
    IF IsNone(cluster_state) THEN DegradedHealth
    ELSE
      LET acc == NodeLoop(Val(cluster_state), 1,
                    [nodes |-> <<>>, primary_count |-> 0, replica_count |-> 0,
                     unhealthy_nodes |-> 0, max_lag |-> 0, issues |-> <<>>])
          ready == ReadyExpr(acc.primary_count, acc.replica_count,
                             acc.unhealthy_nodes)
      IN  [nodes |-> acc.nodes,
           primary_count |-> acc.primary_count,
           replica_count |-> acc.replica_count,
           unhealthy_nodes |-> acc.unhealthy_nodes,
           max_replication_lag |-> MaxLagResult(acc.max_lag),
           failover_ready |-> RoleCountReady(ready, acc.primary_count),
           issues |-> RoleCountIssues(acc.issues, acc.primary_count)]

(***************************************************************************)
(* check_alerts.                                                           *)
(***************************************************************************)
\* AlertRule.cooldown_minutes default (line 88); no rule overrides it
CooldownMinutes == 5

\* config['thresholds']['max_replication_lag_bytes'] default (line 122)
DefaultThreshold == 1000000

alert_rules_reordered ==
    << [name |-> "failover_not_ready",   severity |-> "info"],
       [name |-> "no_primary",           severity |-> "critical"],
       [name |-> "multiple_primaries",   severity |-> "critical"],
       [name |-> "unhealthy_nodes",      severity |-> "warning"],
       [name |-> "high_replication_lag", severity |-> "warning"] >>

\* alert_rules of check_alerts, in the order of the list (lines 424-455);
\* every rule keeps enabled = True
alert_rules ==
    << [name |-> "no_primary",           severity |-> "critical"],
       [name |-> "multiple_primaries",   severity |-> "critical"],
       [name |-> "unhealthy_nodes",      severity |-> "warning"],
       [name |-> "high_replication_lag", severity |-> "warning"],
       [name |-> "failover_not_ready",   severity |-> "info"] >>

RuleNames == {alert_rules[i].name : i \in DOMAIN alert_rules}

InCooldownForever(last_alert, current_time) ==
    ~IsNone(last_alert)

InCooldownInclusive(last_alert, current_time) ==
    /\ ~IsNone(last_alert)
    /\ current_time - Val(last_alert) <= CooldownMinutes * 60

InCooldownMinutes(last_alert, current_time) ==
    /\ ~IsNone(last_alert)
    /\ current_time - Val(last_alert) < CooldownMinutes

\* the cooldown test of lines 462-464: TRUE when the rule is skipped
InCooldown(last_alert, current_time) ==
    /\ ~IsNone(last_alert)
    /\ current_time - Val(last_alert) < CooldownMinutes * 60

EvaluateLagAtLeast(name, h, thr) ==
    CASE name = "no_primary" ->
            IF h.primary_count = 0 THEN "yes" ELSE "no"
      [] name = "multiple_primaries" ->
            IF h.primary_count > 1 THEN "yes" ELSE "no"
      [] name = "unhealthy_nodes" ->
            IF h.unhealthy_nodes > 0 THEN "yes" ELSE "no"
      [] name = "high_replication_lag" ->
            IF IsNone(h.max_replication_lag) THEN "no"
            ELSE IF IsNone(thr) THEN "raise"
            ELSE IF Val(h.max_replication_lag) >= Val(thr) THEN "yes" ELSE "no"
      [] OTHER ->
            IF ~h.failover_ready THEN "yes" ELSE "no"


EvaluateNoPrimaryByReplicas(name, h, thr) ==
    CASE name = "no_primary" ->
            IF h.primary_count = 0 /\ h.replica_count = 0 THEN "yes" ELSE "no"
      [] name = "multiple_primaries" ->
            IF h.primary_count > 1 THEN "yes" ELSE "no"
      [] name = "unhealthy_nodes" ->
            IF h.unhealthy_nodes > 0 THEN "yes" ELSE "no"
      [] name = "high_replication_lag" ->
            IF IsNone(h.max_replication_lag) THEN "no"
            ELSE IF IsNone(thr) THEN "raise"
            ELSE IF Val(h.max_replication_lag) > Val(thr) THEN "yes" ELSE "no"
      [] OTHER ->
            IF ~h.failover_ready THEN "yes" ELSE "no"

\* the evaluation of lines 468-484: "yes", "no", or "raise" when the
\* comparison with a threshold that is no number raises TypeError
Evaluate(name, h, thr) ==
    CASE name = "no_primary" ->
            IF h.primary_count = 0 THEN "yes" ELSE "no"
      [] name = "multiple_primaries" ->
            IF h.primary_count > 1 THEN "yes" ELSE "no"
      [] name = "unhealthy_nodes" ->
            IF h.unhealthy_nodes > 0 THEN "yes" ELSE "no"
      [] name = "high_replication_lag" ->
            IF IsNone(h.max_replication_lag) THEN "no"
            ELSE IF IsNone(thr) THEN "raise"
            ELSE IF Val(h.max_replication_lag) > Val(thr) THEN "yes" ELSE "no"
      [] OTHER ->
            IF ~h.failover_ready THEN "yes" ELSE "no"

RuleStepExtendsCooldown(acc, rule, h, current_time, thr) ==
    IF Evaluate(rule.name, h, thr) # "yes" THEN acc
    ELSE [alerts |-> IF InCooldown(acc.history[rule.name], current_time)
                        THEN acc.alerts
                        ELSE Append(acc.alerts,
                               [rule |-> rule.name,
                                severity |-> rule.severity,
                                timestamp |-> current_time]),
          history |-> [acc.history EXCEPT ![rule.name] = Some(current_time)]]

\* one iteration of the loop over alert_rules (lines 457-495):
\* acc = [alerts, history]
RuleStep(acc, rule, h, current_time, thr) ==
    IF InCooldown(acc.history[rule.name], current_time) THEN acc
    ELSE IF Evaluate(rule.name, h, thr) = "yes"
         THEN [alerts |-> Append(acc.alerts,
                            [rule |-> rule.name,
                             severity |-> rule.severity,
                             timestamp |-> current_time]),
               history |-> [acc.history EXCEPT
                               ![rule.name] = Some(current_time)]]
         ELSE acc

RECURSIVE RuleLoopAbortsOnRaise(_, _, _, _, _)
RuleLoopAbortsOnRaise(i, acc, h, current_time, thr) ==
    IF i > Len(alert_rules) THEN acc
    ELSE IF /\ ~InCooldown(acc.history[alert_rules[i].name], current_time)
            /\ Evaluate(alert_rules[i].name, h, thr) = "raise"
         THEN acc
    ELSE RuleLoopAbortsOnRaise(i + 1,
             RuleStep(acc, alert_rules[i], h, current_time, thr),
             h, current_time, thr)

RECURSIVE RuleLoop(_, _, _, _, _)
RuleLoop(i, acc, h, current_time, thr) ==
    IF i > Len(alert_rules) THEN acc
    ELSE RuleLoop(i + 1, RuleStep(acc, alert_rules[i], h, current_time, thr),
                  h, current_time, thr)

\* check_alerts(health) at time current_time: the alerts returned and the
\* alert_history it leaves
check_alerts(h, current_time, history, thr) ==
    RuleLoop(1, [alerts |-> <<>>, history |-> history], h, current_time, thr)

(***************************************************************************)
(* send_alert and its two channels.  A channel answers "accepted", or      *)
(* "refused" (a webhook status outside 200, 201, 202), or "raise" (the     *)
(* SMTP or HTTP call raised).                                              *)
(***************************************************************************)
\* _send_email_alert (lines 528-569): the whole body is inside try/except
_send_email_alert(answer) ==
    [attempted |-> <<"email">>, success |-> answer = "accepted"]

\* one iteration of the loop of _send_webhook_alert (lines 574-590)
WebhookStep(acc, k, answer) ==
    [attempted |-> Append(acc.attempted, "webhook" \o ToString(k)),
     success |-> acc.success \/ answer = "accepted"]

RECURSIVE WebhookLoop(_, _, _)
WebhookLoop(answers, k, acc) ==
    IF k > Len(answers) THEN acc
    ELSE WebhookLoop(answers, k + 1, WebhookStep(acc, k, answers[k]))

\* _send_webhook_alert (lines 571-592); answers has one entry per URL
_send_webhook_alert(answers) ==
    WebhookLoop(answers, 1, [attempted |-> <<>>, success |-> FALSE])

send_alert_short_circuit(email_configured, email_answer, webhook_answers) ==
    LET first == IF email_configured THEN _send_email_alert(email_answer)
                 ELSE [attempted |-> <<>>, success |-> FALSE]
        hooks == IF webhook_answers # <<>> /\ ~first.success
                    THEN _send_webhook_alert(webhook_answers)
                    ELSE [attempted |-> <<>>, success |-> FALSE]
    IN  [attempted |-> first.attempted \o hooks.attempted,
         success |-> first.success \/ hooks.success]

\* send_alert (lines 514-526): the channels tried, in order, and the result
send_alert(email_configured, email_answer, webhook_answers) ==
    LET first == IF email_configured THEN _send_email_alert(email_answer)
                 ELSE [attempted |-> <<>>, success |-> FALSE]
        hooks == IF webhook_answers # <<>>
                    THEN _send_webhook_alert(webhook_answers)
                    ELSE [attempted |-> <<>>, success |-> FALSE]
    IN  [attempted |-> first.attempted \o hooks.attempted,
         success |-> hooks.success \/ first.success]

(***************************************************************************)
(* The answers the monitor and the nodes may give.                         *)
(***************************************************************************)
SeqsUpTo(S, n) == UNION {[1 .. k -> S] : k \in 0 .. n}

\* what get_replication_status may return for a replica: None (no
\* connection, failed query) or the rows' replay_lag_bytes, SQL NULL as None
ReplicationAnswers ==
    {None, Some(<<>>),
     Some(<<None>>), Some(<<Some(0)>>), Some(<<Some(500)>>),
     Some(<<Some(500), Some(1500)>>), Some(<<Some(1500), Some(500)>>)}

\* one row of the topology with what its node answers; a node that is no
\* replica is never asked for its replication status
NodeRows(codes, probes, answers) ==
    {[reportedstate |-> c, probe |-> p, replication |-> r] :
        c \in codes, p \in probes, r \in answers \cup {None}}

RowRelevant(row) ==
    NodeState(row.reportedstate) \in ReplicaStates \/ IsNone(row.replication)

Named(rows) ==
    [i \in DOMAIN rows |->
        [nodename |-> NodeName(i),
         reportedstate |-> rows[i].reportedstate,
         probe |-> rows[i].probe,
         replication |-> rows[i].replication]]

\* what get_cluster_state may return: None or the rows
ClusterStates(codes, probes, answers) ==
    {None} \cup
    {Some(Named(rows)) :
        rows \in SeqsUpTo({r \in NodeRows(codes, probes, answers) :
                              RowRelevant(r)}, MaxNodes)}

\* seconds that may pass between two calls
ClockSteps == {100, 199, 201}

\* values of config['thresholds']['max_replication_lag_bytes']: the default
\* and a YAML null
ThresholdValues == {Some(DefaultThreshold), None}

VARIABLES
    pc,             \* where the caller is: "idle", "checked", "alerted"
    cluster,        \* what get_cluster_state returned to this health check
    health,         \* Some(the ClusterHealth returned) or None
    clock,          \* datetime.now(), in seconds
    threshold,      \* config['thresholds']['max_replication_lag_bytes']
    alert_history,  \* self.alert_history: rule name -> Some(time) or None
    alerts,         \* the list check_alerts returned
    emitted,        \* per rule, the timestamps of all its alerts so far
    to_emails,      \* config['alerting']['email']['to_emails'] is not empty
    webhook_urls,   \* len(config['alerting']['webhook_urls'])
    sending,        \* the rule of the alert given to send_alert, or None
    replies,        \* what the channels answered to that alert
    attempted,      \* the channels send_alert tried, in order
    sent,           \* what send_alert returned, per alert dispatched
    sleep_for,      \* seconds of the asyncio.sleep of monitor_loop
    stopped_at,     \* where monitor_loop was when it ended, or None
    first_read,     \* initial_state of test_failover
    result,         \* Some(what test_failover returned) or None
    exit_code,      \* Some(exit status of the process) or None
    node_connections \* self.node_connections: node name -> Some("open"),
                    \* Some("closed"), or None when the name is no key

configVars == <<to_emails, webhook_urls>>
sendVars == <<sending, replies, attempted, sent>>
loopVars == <<sleep_for, stopped_at>>
cliVars == <<first_read, result, exit_code>>
cacheVars == <<node_connections>>

vars == <<pc, cluster, health, clock, threshold, alert_history, alerts,
          emitted, configVars, sendVars, loopVars, cliVars, cacheVars>>

\* PGHAMonitor.__init__, but for the configuration it loads
Constructed ==
    /\ pc = "idle"
    /\ cluster = None
    /\ health = None
    /\ clock = 0
    /\ alert_history = [r \in RuleNames |-> None]
    /\ alerts = <<>>
    /\ emitted = [r \in RuleNames |-> <<>>]
    /\ sending = None
    /\ replies = [email |-> None, webhooks |-> <<>>]
    /\ attempted = <<>>
    /\ sent = <<>>
    /\ sleep_for = 0
    /\ stopped_at = None
    /\ first_read = None
    /\ result = None
    /\ exit_code = None
    /\ node_connections = [n \in NodeNames |-> None]

\* a monitor whose configuration names no channel (the defaults of
\* _load_config)
Init ==
    /\ Constructed
    /\ threshold \in ThresholdValues
    /\ to_emails = FALSE
    /\ webhook_urls = 0

\* one call of perform_health_check
PerformHealthCheck(answers) ==
    /\ pc = "idle"
    /\ \E cs \in answers :
        /\ cluster' = cs
        /\ health' = Some(perform_health_check(cs))
    /\ pc' = "checked"
    /\ UNCHANGED <<clock, threshold, alert_history, alerts, emitted,
                   configVars, sendVars, loopVars, cliVars,
                   cacheVars>>

\* one call of check_alerts on the snapshot just taken
CheckAlerts ==
    /\ pc = "checked"
    /\ LET r == check_alerts(Val(health), clock, alert_history, threshold)
       IN  /\ alerts' = r.alerts
           /\ alert_history' = r.history
           /\ emitted' = [n \in RuleNames |->
                 IF \E k \in DOMAIN r.alerts : r.alerts[k].rule = n
                    THEN Append(emitted[n], clock) ELSE emitted[n]]
    /\ pc' = "alerted"
    /\ UNCHANGED <<cluster, health, clock, threshold,
                   configVars, sendVars, loopVars, cliVars,
                   cacheVars>>

\* the caller is done with the snapshot and the alerts
Return ==
    /\ pc \in {"checked", "alerted"}
    /\ pc' = "idle"
    /\ cluster' = None
    /\ health' = None
    /\ alerts' = <<>>
    /\ UNCHANGED <<clock, threshold, alert_history, emitted,
                   configVars, sendVars, loopVars, cliVars,
                   cacheVars>>

\* time passes between two calls
Tick ==
    /\ pc = "idle"
    /\ \E d \in ClockSteps :
        /\ clock + d <= MaxClock
        /\ clock' = clock + d
    /\ UNCHANGED <<pc, cluster, health, threshold, alert_history, alerts,
                   emitted, configVars, sendVars, loopVars, cliVars,
                   cacheVars>>

(***************************************************************************)
(* Spec: health checks alone (the health command), over every topology.    *)
(***************************************************************************)
HealthCheck == PerformHealthCheck(ClusterStates(StateCodes, ProbeOutcomes,
                                                ReplicationAnswers))

ReturnHealth == pc = "checked" /\ Return

Next == HealthCheck \/ ReturnHealth

Spec == Init /\ [][Next]_vars

(***************************************************************************)
(* SpecAlerts: health check, then check_alerts, with time passing between  *)
(* the rounds.                                                             *)
(***************************************************************************)
Row(code, probe, answer) ==
    [reportedstate |-> code, probe |-> probe, replication |-> answer]

\* the topologies of the alert rounds: the monitor unreachable; a ready
\* cluster with no lag sample, with a lag at the threshold and with one above
\* it; no primary; two primaries; an unreachable replica; a silent primary
\* with a lagging replica; a primary alone
AlertClusterStates ==
    {None} \cup
    {Some(Named(rows)) : rows \in
       { << Row(3, "ok", None), Row(2, "ok", Some(<<>>)) >>,
         << Row(3, "ok", None),
            Row(2, "ok", Some(<<Some(DefaultThreshold)>>)) >>,
         << Row(3, "ok", None),
            Row(2, "ok", Some(<<Some(DefaultThreshold + 1)>>)) >>,
         << Row(2, "ok", Some(<<>>)), Row(1, "ok", Some(<<>>)) >>,
         << Row(3, "ok", None), Row(3, "ok", None) >>,
         << Row(3, "ok", None), Row(2, "cannot_connect", None) >>,
         << Row(3, "no_response", None),
            Row(2, "ok", Some(<<Some(DefaultThreshold + 1)>>)) >>,
         << Row(3, "ok", None) >> }}

AlertHealthCheck == PerformHealthCheck(AlertClusterStates)

ReturnAlerts == pc = "alerted" /\ Return

NextAlerts == AlertHealthCheck \/ CheckAlerts \/ ReturnAlerts \/ Tick

SpecAlerts == Init /\ [][NextAlerts]_vars

(***************************************************************************)
(* send_alert on its own, for every configuration of the channels.         *)
(***************************************************************************)
EmailAnswers == {"accepted", "raise"}
WebhookAnswers == {"accepted", "refused", "raise"}

InitSend ==
    /\ Constructed
    /\ threshold = Some(DefaultThreshold)
    /\ to_emails \in BOOLEAN
    /\ webhook_urls \in 0 .. MaxWebhooks

\* one call of send_alert with the alert of rule n
SendAlert ==
    /\ pc = "idle"
    /\ \E n \in RuleNames, ea \in EmailAnswers,
          wa \in [1 .. webhook_urls -> WebhookAnswers] :
          LET r == send_alert(to_emails, ea, wa)
          IN  /\ sending' = Some(n)
              /\ replies' = [email |-> IF to_emails THEN Some(ea) ELSE None,
                             webhooks |-> wa]
              /\ attempted' = r.attempted
              /\ sent' = Append(sent, r.success)
    /\ pc' = "sent"
    /\ UNCHANGED <<cluster, health, clock, threshold, alert_history, alerts,
                   emitted, configVars, loopVars, cliVars,
                   cacheVars>>

NextSend == SendAlert

SpecSend == InitSend /\ [][NextSend]_vars

(***************************************************************************)
(* monitor_loop: one cycle is a health check, check_alerts, send_alert for *)
(* every alert, and the report; then the loop sleeps.                      *)
(***************************************************************************)
\* thresholds.health_check_interval_seconds, in seconds
HealthCheckInterval == 30
\* the sleep of the except branch, in seconds
ErrorBackoff == 60

\* a monitor with one webhook and the default threshold
InitLoop ==
    /\ Constructed
    /\ threshold = Some(DefaultThreshold)
    /\ to_emails = FALSE
    /\ webhook_urls = 1

\* the topologies a cycle may read: none, a primary with a streaming
\* standby, a primary with a standby that cannot be reached
LoopClusterStates ==
    {None,
     Some(Named(<< Row(3, "ok", None), Row(2, "ok", Some(<<>>)) >>)),
     Some(Named(<< Row(3, "ok", None), Row(2, "cannot_connect", None) >>))}

\* health = self.perform_health_check()
LoopHealthCheck == PerformHealthCheck(LoopClusterStates)

DispatchInBackground ==
    /\ pc = "alerted"
    /\ pc' = "idle"
    /\ UNCHANGED <<cluster, health, clock, threshold, alert_history, alerts,
                   emitted, configVars, sendVars, loopVars, cliVars,
                   cacheVars>>

DispatchForgetsUnsent ==
    /\ pc = "alerted"
    /\ \E ea \in [DOMAIN alerts -> EmailAnswers],
          wa \in [DOMAIN alerts -> [1 .. webhook_urls -> WebhookAnswers]] :
          /\ sent' = [k \in DOMAIN alerts |->
                         send_alert(to_emails, ea[k], wa[k]).success]
          /\ alert_history' = [n \in RuleNames |->
                IF \E k \in DOMAIN alerts :
                      /\ alerts[k].rule = n
                      /\ ~send_alert(to_emails, ea[k], wa[k]).success
                   THEN None ELSE alert_history[n]]
    /\ pc' = "dispatched"
    /\ UNCHANGED <<cluster, health, clock, threshold, alerts,
                   emitted, configVars, sending, replies, attempted,
                   loopVars, cliVars,
                   cacheVars>>

\* for alert in alerts: self.send_alert(alert)
Dispatch ==
    /\ pc = "alerted"
    /\ \E ea \in [DOMAIN alerts -> EmailAnswers],
          wa \in [DOMAIN alerts -> [1 .. webhook_urls -> WebhookAnswers]] :
          sent' = [k \in DOMAIN alerts |->
                      send_alert(to_emails, ea[k], wa[k]).success]
    /\ pc' = "dispatched"
    /\ UNCHANGED <<cluster, health, clock, threshold, alert_history, alerts,
                   emitted, configVars, sending, replies, attempted,
                   loopVars, cliVars,
                   cacheVars>>

\* the report is written and the loop goes to sleep for the poll interval
WriteReport ==
    /\ pc = "dispatched"
    /\ pc' = "sleeping"
    /\ sleep_for' = HealthCheckInterval
    /\ UNCHANGED <<cluster, health, clock, threshold, alert_history, alerts,
                   emitted, configVars, sendVars, stopped_at, cliVars,
                   cacheVars>>

RaiseEndsLoop ==
    /\ pc \in {"idle", "checked", "alerted", "dispatched"}
    /\ pc' = "stopped"
    /\ stopped_at' = Some(pc)
    /\ UNCHANGED <<cluster, health, clock, threshold, alert_history, alerts,
                   emitted, configVars, sendVars, sleep_for, cliVars,
                   cacheVars>>

\* the next statement of the try block raises an Exception: the except
\* branch logs it and sleeps
Raise ==
    /\ pc \in {"idle", "checked", "alerted", "dispatched"}
    /\ pc' = "sleeping"
    /\ sleep_for' = ErrorBackoff
    /\ UNCHANGED <<cluster, health, clock, threshold, alert_history, alerts,
                   emitted, configVars, sendVars, stopped_at, cliVars,
                   cacheVars>>

\* asyncio.sleep returns and the while loop starts over
Sleep ==
    /\ pc = "sleeping"
    /\ clock + sleep_for <= MaxClock
    /\ clock' = clock + sleep_for
    /\ pc' = "idle"
    /\ cluster' = None
    /\ health' = None
    /\ alerts' = <<>>
    /\ sent' = <<>>
    /\ UNCHANGED <<threshold, alert_history, emitted, configVars, sending,
                   replies, attempted, loopVars, cliVars,
                   cacheVars>>

NextLoop ==
    LoopHealthCheck \/ CheckAlerts \/ Dispatch \/ WriteReport \/ Raise \/ Sleep

\* the loop is the only task of the event loop, and every call of a cycle
\* returns or raises
SpecLoop == InitLoop /\ [][NextLoop]_vars /\ WF_vars(NextLoop)

(***************************************************************************)
(* monitor_loop during an outage that does not end: every cycle gets a     *)
(* snapshot with an unhealthy node and without readiness.                  *)
(***************************************************************************)
\* the monitor unreachable, or a primary whose standby cannot be reached
OutageClusterStates ==
    {None,
     Some(Named(<< Row(3, "ok", None), Row(2, "cannot_connect", None) >>))}

OutageHealthCheck == PerformHealthCheck(OutageClusterStates)

\* send_alert or the report write raises an Exception, after check_alerts
\* has returned
RaiseAfterAlerts ==
    /\ pc \in {"alerted", "dispatched"}
    /\ pc' = "sleeping"
    /\ sleep_for' = ErrorBackoff
    /\ UNCHANGED <<cluster, health, clock, threshold, alert_history, alerts,
                   emitted, configVars, sendVars, stopped_at, cliVars,
                   cacheVars>>

NextOutage ==
    \/ OutageHealthCheck
    \/ CheckAlerts
    \/ Dispatch
    \/ WriteReport
    \/ RaiseAfterAlerts
    \/ Sleep

SpecOutage == InitLoop /\ [][NextOutage]_vars /\ WF_vars(NextOutage)

\* KeyboardInterrupt is not an Exception: wherever it is raised it leaves
\* the while loop, which tests no stop flag
Interrupt ==
    /\ pc \in {"idle", "checked", "alerted", "dispatched", "sleeping"}
    /\ pc' = "stopped"
    /\ stopped_at' = Some(pc)
    /\ UNCHANGED <<cluster, health, clock, threshold, alert_history, alerts,
                   emitted, configVars, sendVars, sleep_for, cliVars,
                   cacheVars>>

NextLoopStop == NextLoop \/ Interrupt

SpecLoopStop == InitLoop /\ [][NextLoopStop]_vars

(***************************************************************************)
(* The command test-failover: test_failover and the branch of main.        *)
(***************************************************************************)
\* the index of the first row with reportedstate == 3, or 0
RECURSIVE FirstPrimary(_, _)
FirstPrimary(rows, i) ==
    IF i > Len(rows) THEN 0
    ELSE IF rows[i].reportedstate = 3 THEN i
    ELSE FirstPrimary(rows, i + 1)

\* the dict test_failover returns when it gives up early
FailoverError(message) ==
    [success |-> FALSE,
     error |-> Some(message),
     current_primary |-> None,
     replica_count |-> None,
     unhealthy_nodes |-> None,
     issues |-> None]

\* test_failover: initial_state is the topology it reads itself, second
\* the topology the health check inside it reads
test_failover(initial_state, second) ==
    IF IsNone(initial_state) THEN FailoverError("Cannot get cluster state")
    ELSE IF FirstPrimary(Val(initial_state), 1) = 0
         THEN FailoverError("No primary node found")
    ELSE LET primary_node ==
                 Val(initial_state)[FirstPrimary(Val(initial_state), 1)]
             h == perform_health_check(second)
         IN  [success |-> h.failover_ready,
              error |-> None,
              current_primary |-> Some(primary_node.nodename),
              replica_count |-> Some(h.replica_count),
              unhealthy_nodes |-> Some(h.unhealthy_nodes),
              issues |-> Some(h.issues)]

\* the exit status of main for a command: only the usage branch calls
\* sys.exit, every other branch falls off the end of main
ExitStatus(command) ==
    IF command \in {"health", "test-failover", "cluster-state"} THEN 0 ELSE 1

\* the topologies a read may return: up to MaxNodes primaries and
\* secondaries, reachable or not
FailoverClusterStates ==
    ClusterStates({2, 3}, {"ok", "cannot_connect"}, {Some(<<>>)})

\* pg_ha_monitor.py test-failover
TestFailoverCommand ==
    /\ pc = "idle"
    /\ \E initial_state \in FailoverClusterStates,
          second \in FailoverClusterStates :
          /\ first_read' = initial_state
          /\ result' = Some(test_failover(initial_state, second))
          /\ IF IsNone(test_failover(initial_state, second).error)
                THEN /\ cluster' = second
                     /\ health' = Some(perform_health_check(second))
                ELSE UNCHANGED <<cluster, health>>
    /\ exit_code' = Some(ExitStatus("test-failover"))
    /\ pc' = "exited"
    /\ UNCHANGED <<clock, threshold, alert_history, alerts, emitted,
                   configVars, sendVars, loopVars, cacheVars>>

NextFailover == TestFailoverCommand

SpecFailover == Init /\ [][NextFailover]_vars

(***************************************************************************)
(* The cache of node connections, used by a caller that keeps or closes    *)
(* the connections it obtains.                                             *)
(***************************************************************************)
\* _get_node_connection: the cached connection if the name is a key,
\* whatever its state; otherwise a new connection, cached, or None
_get_node_connection(cache, node_name, reachable) ==
    IF ~IsNone(cache[node_name])
       THEN [conn |-> cache[node_name], cache |-> cache]
    ELSE IF reachable
       THEN [conn |-> Some("open"),
             cache |-> [cache EXCEPT ![node_name] = Some("open")]]
    ELSE [conn |-> None, cache |-> cache]

\* what the queries of check_node_health meet when the connection comes
\* from the cache: conn.cursor() raises on a closed connection, and the
\* queries raise on an open one whose node went away
CachedProbe(cache, row) ==
    IF cache[row.nodename] = Some("closed") THEN "exception"
    ELSE IF cache[row.nodename] = Some("open") /\ row.probe = "cannot_connect"
         THEN "exception"
    ELSE row.probe

\* the rows as check_node_health meets them with this cache
ThroughCache(cache, rows) ==
    [i \in DOMAIN rows |-> [rows[i] EXCEPT !.probe = CachedProbe(cache, rows[i])]]

\* the finally blocks of check_node_health and get_replication_status:
\* the connection is closed and its key deleted
AfterHealthCheck(cache, rows) ==
    [n \in NodeNames |->
        IF \E i \in DOMAIN rows : rows[i].nodename = n THEN None
        ELSE cache[n]]

\* the loop of test_database_connections over the configured nodes: each
\* connection obtained is closed and stays in the cache; the first node
\* without a connection ends the test
RECURSIVE test_database_connections(_, _, _)
test_database_connections(cache, i, reachable) ==
    IF i > MaxNodes THEN cache
    ELSE LET got == _get_node_connection(cache, NodeName(i),
                                         reachable[NodeName(i)])
         IN  IF IsNone(got.conn) THEN cache
             ELSE test_database_connections(
                      [got.cache EXCEPT ![NodeName(i)] = Some("closed")],
                      i + 1, reachable)

\* a caller obtains a connection and keeps it open
GetNodeConnection ==
    /\ pc = "idle"
    /\ \E n \in NodeNames, reachable \in BOOLEAN :
          node_connections' =
              _get_node_connection(node_connections, n, reachable).cache
    /\ UNCHANGED <<pc, cluster, health, clock, threshold, alert_history,
                   alerts, emitted, configVars, sendVars, loopVars, cliVars>>

TestDatabaseConnections ==
    /\ pc = "idle"
    /\ \E reachable \in [NodeNames -> BOOLEAN] :
          node_connections' =
              test_database_connections(node_connections, 1, reachable)
    /\ UNCHANGED <<pc, cluster, health, clock, threshold, alert_history,
                   alerts, emitted, configVars, sendVars, loopVars, cliVars>>

\* the topologies read while the cache is in use
CacheClusterStates ==
    ClusterStates({2, 3}, {"ok", "cannot_connect"}, {Some(<<>>)})

\* perform_health_check with whatever the cache holds
CacheHealthCheck ==
    /\ pc = "idle"
    /\ \E cs \in CacheClusterStates :
          /\ cluster' = cs
          /\ IF IsNone(cs)
                THEN /\ health' = Some(perform_health_check(cs))
                     /\ UNCHANGED node_connections
                ELSE /\ health' = Some(perform_health_check(
                             Some(ThroughCache(node_connections, Val(cs)))))
                     /\ node_connections' =
                             AfterHealthCheck(node_connections, Val(cs))
    /\ pc' = "checked"
    /\ UNCHANGED <<clock, threshold, alert_history, alerts, emitted,
                   configVars, sendVars, loopVars, cliVars>>

NextCache ==
    GetNodeConnection \/ TestDatabaseConnections \/ CacheHealthCheck \/ ReturnHealth

SpecCache == Init /\ [][NextCache]_vars

(***************************************************************************)
(* Properties.                                                             *)
(***************************************************************************)
\* the snapshot of the health check in progress, and the rows it was built on
Snapshot == Val(health)
Rows == Val(cluster)
Fetched == ~IsNone(health) /\ ~IsNone(cluster)
Degraded == ~IsNone(health) /\ IsNone(cluster)

UnhealthyEntries(h) ==
    Cardinality({i \in DOMAIN h.nodes : h.nodes[i].health = "UNHEALTHY"})

Occurrences(seq, x) == Cardinality({i \in DOMAIN seq : seq[i] = x})

SetMax(S) == CHOOSE m \in S : \A x \in S : x <= m

\* the non-null replay lags among the replication rows answered for row i
RowLags(i) ==
    IF NodeState(Rows[i].reportedstate) \in ReplicaStates
       /\ ~IsNone(Rows[i].replication)
    THEN {Val(Val(Rows[i].replication)[k]) :
            k \in {j \in DOMAIN Val(Rows[i].replication) :
                      ~IsNone(Val(Rows[i].replication)[j])}}
    ELSE {}

\* the non-null replay lags of all replicas of the topology
AllLags == IF IsNone(cluster) THEN {}
           ELSE UNION {RowLags(i) : i \in DOMAIN Rows}

\* C1: in every snapshot perform_health_check returns, the degraded one
\* included, failover_ready implies exactly one primary and no unhealthy node
C1_ReadyImpliesOnePrimaryAllHealthy ==
    ~IsNone(health) =>
        (Snapshot.failover_ready =>
            Snapshot.primary_count = 1 /\ Snapshot.unhealthy_nodes = 0)

\* a ready snapshot of a fetched topology
C1_Witness ==
    /\ Fetched
    /\ Snapshot.failover_ready
    /\ Len(Snapshot.nodes) = 2

\* C2 as stated: in every snapshot, the degraded one included,
\* unhealthy_nodes is the number of UNHEALTHY entries of nodes
C2_Original ==
    ~IsNone(health) => Snapshot.unhealthy_nodes = UnhealthyEntries(Snapshot)

\* C2 amended: in every snapshot built from a fetched topology
\* unhealthy_nodes is the number of UNHEALTHY entries of nodes; the degraded
\* snapshot has no entries and unhealthy_nodes = 1
C2_UnhealthyCount ==
    /\ Fetched => Snapshot.unhealthy_nodes = UnhealthyEntries(Snapshot)
    /\ Degraded => Snapshot.nodes = <<>> /\ Snapshot.unhealthy_nodes = 1

\* a fetched topology with one healthy and one unhealthy node
C2_Witness ==
    /\ Fetched
    /\ Len(Snapshot.nodes) = 2
    /\ Snapshot.nodes[1].health = "HEALTHY"
    /\ Snapshot.nodes[2].health = "UNHEALTHY"
    /\ Snapshot.unhealthy_nodes = 1

\* C3: max_replication_lag is non-null exactly when some replica-role node
\* had a replication row with a non-null replay lag (a lag of 0 included)
C3_LagMeasuredIffSampled ==
    ~IsNone(health) =>
        (~IsNone(Snapshot.max_replication_lag) <=> AllLags # {})

\* C4: a replica with several replication rows gets the maximum of their
\* replay lags as replication_lag, whatever the order of the rows
C4_NodeLagIsMaximum ==
    Fetched =>
        \A i \in DOMAIN Rows :
            (/\ NodeState(Rows[i].reportedstate) \in ReplicaStates
             /\ ~IsNone(Rows[i].replication)
             /\ Len(Val(Rows[i].replication)) >= 2
             /\ RowLags(i) # {})
            => Snapshot.nodes[i].replication_lag = Some(SetMax(RowLags(i)))

\* C5: max_replication_lag is the maximum replay lag over all rows of all
\* replicas, and null when no replica has a row
C5_MaxLagIsMaximum ==
    ~IsNone(health) =>
        Snapshot.max_replication_lag =
            (IF AllLags = {} THEN None ELSE Some(SetMax(AllLags)))

\* C6 as stated: every snapshot, the degraded one included, carries exactly
\* one "No primary node found" and no "Multiple primary nodes detected" when
\* primary_count = 0, the converse when primary_count > 1, neither when it
\* is 1
RoleIssuesMatch(h) ==
    LET none == Occurrences(h.issues, "No primary node found")
        many == Occurrences(h.issues, "Multiple primary nodes detected")
    IN  /\ h.primary_count = 0 => none = 1 /\ many = 0
        /\ h.primary_count > 1 => none = 0 /\ many = 1
        /\ h.primary_count = 1 => none = 0 /\ many = 0

C6_Original == ~IsNone(health) => RoleIssuesMatch(Snapshot)

\* C6 amended: the same for every snapshot built from a fetched topology;
\* the degraded snapshot has primary_count = 0 and the single issue
\* "Cannot connect to pg_auto_failover monitor"
C6_RoleCountIssues ==
    /\ Fetched => RoleIssuesMatch(Snapshot)
    /\ Degraded =>
          /\ Snapshot.primary_count = 0
          /\ Snapshot.issues = <<"Cannot connect to pg_auto_failover monitor">>

\* no primary, and another issue before the role-count one
C6_Witness ==
    /\ Fetched
    /\ Snapshot.primary_count = 0
    /\ Snapshot.unhealthy_nodes = 2
    /\ Len(Snapshot.issues) = 3
    /\ Snapshot.issues[3] = "No primary node found"

\* the step that is one call of check_alerts
CheckAlertsStep == pc = "checked" /\ pc' = "alerted"

Returned(list, name) == \E k \in DOMAIN list : list[k].rule = name

\* C7: a rule whose predicate holds yields an alert at time now exactly when
\* alert_history has no entry for it or now - alert_history[rule] >= 300 s,
\* and then alert_history[rule] becomes now
C7_CooldownAdmission ==
    [][CheckAlertsStep =>
        \A n \in RuleNames :
            Evaluate(n, Snapshot, threshold) = "yes" =>
                /\ Returned(alerts', n) <=>
                      (IsNone(alert_history[n])
                       \/ clock - Val(alert_history[n]) >= 300)
                /\ Returned(alerts', n) => alert_history'[n] = Some(clock)]_vars

\* a rule that fired at 0 fires again at exactly 300 s
C7_Witness ==
    /\ pc = "alerted"
    /\ clock = 300
    /\ \E n \in RuleNames : emitted[n] = <<0, 300>> /\ Returned(alerts, n)

\* C8: two successive alerts of one rule are at least its cooldown apart
C8_SuccessiveAlertsApart ==
    \A n \in RuleNames :
        \A k \in 1 .. Len(emitted[n]) - 1 :
            emitted[n][k + 1] - emitted[n][k] >= 300

\* a rule that has fired twice, the second time 301 s after the first
C8_Witness ==
    \E n \in RuleNames : Len(emitted[n]) = 2 /\ emitted[n][2] = emitted[n][1] + 301

\* C9: a call of check_alerts changes alert_history only for the rules of
\* the alerts it returns
C9_HistoryFrame ==
    [][CheckAlertsStep =>
        \A n \in RuleNames :
            ~Returned(alerts', n) => alert_history'[n] = alert_history[n]]_vars

\* a call that suppressed a matching rule in its cooldown, and one whose
\* evaluation raised
C9_Witness ==
    /\ pc = "alerted"
    /\ \E n \in RuleNames :
          /\ Evaluate(n, Snapshot, threshold) = "yes"
          /\ ~Returned(alerts, n)
          /\ alert_history[n] = Some(clock - 100)
    /\ Evaluate("high_replication_lag", Snapshot, threshold) = "raise"

\* the order of the rule table
RuleOrder == <<"no_primary", "multiple_primaries", "unhealthy_nodes",
               "high_replication_lag", "failover_not_ready">>

Position(name) == CHOOSE k \in DOMAIN RuleOrder : RuleOrder[k] = name

\* C10: the alerts of one call follow the order of the rule table, no rule
\* twice
C10_AlertsInTableOrder ==
    \A i, j \in DOMAIN alerts :
        i < j => Position(alerts[i].rule) < Position(alerts[j].rule)

\* a call that returned three alerts
C10_Witness ==
    /\ pc = "alerted"
    /\ Len(alerts) = 3
    /\ alerts[1].rule = "no_primary"
    /\ alerts[3].rule = "failover_not_ready"

\* the rule has never fired, or its cooldown of 300 s is over
OutsideCooldown(n) ==
    IsNone(alert_history[n]) \/ clock - Val(alert_history[n]) >= 300

\* the maximum lag of the snapshot is null
NoLagMeasured == IsNone(Snapshot.max_replication_lag)

\* C11: outside its cooldown, high_replication_lag is returned exactly when
\* the maximum lag of the snapshot is not null and strictly above the
\* configured number of bytes; with a null maximum it is never returned,
\* whatever the threshold is
C11_HighLagIffAboveThreshold ==
    [][CheckAlertsStep /\ OutsideCooldown("high_replication_lag") =>
        /\ ~IsNone(threshold) =>
              (Returned(alerts', "high_replication_lag") <=>
                  /\ ~NoLagMeasured
                  /\ Val(Snapshot.max_replication_lag) > Val(threshold))
        /\ NoLagMeasured => ~Returned(alerts', "high_replication_lag")]_vars

\* a lag one byte above the threshold was alerted
C11_Witness ==
    /\ pc = "alerted"
    /\ threshold = Some(DefaultThreshold)
    /\ Snapshot.max_replication_lag = Some(DefaultThreshold + 1)
    /\ Returned(alerts, "high_replication_lag")
    /\ alert_history["high_replication_lag"] = Some(clock)

\* C12: when the topology cannot be fetched, perform_health_check returns
\* a snapshot with no node, exactly one issue, and failover_ready false
C12_DegradedSnapshot ==
    Degraded =>
        /\ Snapshot.nodes = <<>>
        /\ Len(Snapshot.issues) = 1
        /\ Snapshot.failover_ready = FALSE

\* a health check whose topology read returned nothing
C12_Witness ==
    /\ pc = "checked"
    /\ IsNone(cluster)
    /\ ~IsNone(health)
    /\ Snapshot.issues = <<"Cannot connect to pg_auto_failover monitor">>

\* the evaluation of high_replication_lag raises in this call
LagRuleRaises ==
    /\ OutsideCooldown("high_replication_lag")
    /\ IsNone(threshold)
    /\ ~NoLagMeasured

\* C17: when the evaluation of a rule raises, the rule yields no alert and
\* leaves its history entry alone, and the call returns what it would have
\* returned had that rule evaluated to false
C17_RaisingRuleOnlySkipped ==
    [][CheckAlertsStep /\ LagRuleRaises =>
        /\ ~Returned(alerts', "high_replication_lag")
        /\ alert_history'["high_replication_lag"] =
              alert_history["high_replication_lag"]
        /\ alerts' = check_alerts(Snapshot, clock, alert_history,
                         Snapshot.max_replication_lag).alerts]_vars

\* a call in which the lag rule raised and the rule after it fired
C17_Witness ==
    /\ pc = "alerted"
    /\ IsNone(threshold)
    /\ ~NoLagMeasured
    /\ IsNone(alert_history["high_replication_lag"])
    /\ alerts # <<>>
    /\ alerts[Len(alerts)].rule = "failover_not_ready"
    /\ alerts[Len(alerts)].timestamp = clock

\* the rows with the probe of row i answering
ProbeSucceeds(rows, i) == [rows EXCEPT ![i].probe = "ok"]

\* C18: a failed probe marks its node UNHEALTHY, the snapshot keeps every
\* node in input order, and the role and health of every other node and
\* the two role counts are what they are when that probe succeeds
C18_ProbeFailureIsLocal ==
    Fetched =>
        /\ Len(Snapshot.nodes) = Len(Rows)
        /\ \A j \in DOMAIN Rows : Snapshot.nodes[j].name = Rows[j].nodename
        /\ \A i \in DOMAIN Rows :
              Rows[i].probe # "ok" =>
                 LET other == perform_health_check(Some(ProbeSucceeds(Rows, i)))
                 IN  /\ Snapshot.nodes[i].health = "UNHEALTHY"
                     /\ \A j \in DOMAIN Rows \ {i} :
                           /\ Snapshot.nodes[j].state = other.nodes[j].state
                           /\ Snapshot.nodes[j].health = other.nodes[j].health
                     /\ Snapshot.primary_count = other.primary_count
                     /\ Snapshot.replica_count = other.replica_count

\* the probe of the first of two nodes failed and the second is healthy
C18_Witness ==
    /\ Fetched
    /\ Len(Rows) = 2
    /\ Rows[1].probe = "cannot_connect"
    /\ Snapshot.nodes[1].health = "UNHEALTHY"
    /\ Snapshot.nodes[2].health = "HEALTHY"
    /\ Snapshot.nodes[2].state = "SECONDARY"

\* no rule has fired before this call
EmptyHistory == \A n \in RuleNames : IsNone(alert_history[n])

\* the snapshot and the alerts of a cluster without a primary
NoPrimaryVerdict(list) ==
    /\ Snapshot.failover_ready = FALSE
    /\ Occurrences(Snapshot.issues, "No primary node found") = 1
    /\ \E i, j \in DOMAIN list :
          /\ i < j
          /\ list[i].rule = "no_primary" /\ list[i].severity = "critical"
          /\ list[j].rule = "failover_not_ready" /\ list[j].severity = "info"

\* C19 as stated: with an empty history, every snapshot without a primary
\* is not ready, carries the issue "No primary node found", and yields
\* no_primary (critical) before failover_not_ready (info)
C19_Original ==
    [][CheckAlertsStep /\ EmptyHistory /\ Snapshot.primary_count = 0 =>
        NoPrimaryVerdict(alerts')]_vars

\* C19: the same for every snapshot built from a topology that was read
C19_NoPrimaryAlerts ==
    [][CheckAlertsStep /\ EmptyHistory /\ Fetched
          /\ Snapshot.primary_count = 0 =>
        NoPrimaryVerdict(alerts')]_vars

\* two healthy replicas and no primary, first call of check_alerts
C19_Witness ==
    /\ pc = "alerted"
    /\ Fetched
    /\ Snapshot.primary_count = 0
    /\ Snapshot.replica_count = 2
    /\ Snapshot.unhealthy_nodes = 0
    /\ Len(alerts) = 2
    /\ \A n \in RuleNames : Len(emitted[n]) <= 1

\* the channels the configuration names
Configured ==
    (IF to_emails THEN {"email"} ELSE {}) \cup
    {"webhook" \o ToString(k) : k \in 1 .. webhook_urls}

\* some channel accepted the alert
Accepted ==
    \/ replies.email = Some("accepted")
    \/ \E k \in DOMAIN replies.webhooks : replies.webhooks[k] = "accepted"

\* C16: send_alert tries every configured channel exactly once, whatever
\* the other channels answered or raised, and returns whether one accepted
C16_EveryChannelOnce ==
    pc = "sent" =>
        /\ \A c \in Configured : Occurrences(attempted, c) = 1
        /\ Len(attempted) = Cardinality(Configured)
        /\ sent = <<Accepted>>

\* the e-mail raised, the first webhook raised, the second accepted
C16_Witness ==
    /\ pc = "sent"
    /\ replies = [email |-> Some("raise"), webhooks |-> <<"raise", "accepted">>]
    /\ attempted = <<"email", "webhook1", "webhook2">>
    /\ sent = <<TRUE>>

\* C13: a cycle whose topology read failed is followed by the sleep of
\* 60 s, not by the sleep of the poll interval
C13_BackoffAfterUnreachable ==
    pc = "sleeping" /\ Degraded => sleep_for = ErrorBackoff

\* a cycle has begun and the clock leaves room for the longest sleep
InCycle ==
    /\ pc \in {"checked", "alerted", "dispatched", "sleeping"}
    /\ clock + ErrorBackoff <= MaxClock

\* C14: whatever happens in a cycle (no alert, a degraded snapshot, every
\* notifier failing, an exception at any statement), the loop comes back
\* to its top and the next cycle starts
C14_NextCycleStarts == InCycle ~> (pc = "idle")

\* a cycle that began after a cycle an exception had aborted
C14_Witness ==
    /\ pc = "checked"
    /\ sleep_for = ErrorBackoff
    /\ clock >= ErrorBackoff

\* C15: the loop ends only at the top of a cycle or in the sleep between
\* two cycles, never inside a cycle
C15_StopsBetweenCycles ==
    pc = "stopped" => stopped_at \in {Some("idle"), Some("sleeping")}

\* C20: test-failover ends the process with status 0 when the verdict is
\* ready and with status 1 when it is not
C20_ExitStatusIsVerdict ==
    pc = "exited" =>
        exit_code = Some(IF Val(result).success THEN 0 ELSE 1)

\* the names of the members of NodeState
NodeStateNames ==
    {"UNKNOWN", "DRAINING", "WAIT_STANDBY", "SECONDARY", "PRIMARY", "SINGLE"}

\* the rows of the topology whose reportedstate is one of codes
RowsReporting(codes) == {i \in DOMAIN Rows : Rows[i].reportedstate \in codes}

\* C21: every reported state code gets a NodeState, a code outside -1..4
\* gets UNKNOWN, and a node with such a code is counted neither as primary
\* nor as replica
C21_ClassificationTotal ==
    Fetched =>
        /\ Len(Snapshot.nodes) = Len(Rows)
        /\ \A i \in DOMAIN Rows :
              /\ Snapshot.nodes[i].state \in NodeStateNames
              /\ Rows[i].reportedstate \notin -1 .. 4 =>
                    Snapshot.nodes[i].state = "UNKNOWN"
        /\ Snapshot.primary_count = Cardinality(RowsReporting({3}))
        /\ Snapshot.replica_count = Cardinality(RowsReporting({1, 2}))

\* a node reporting code 5 next to a primary
C21_Witness ==
    /\ Fetched
    /\ Len(Rows) = 2
    /\ Rows[1].reportedstate = 5
    /\ Snapshot.nodes[1].state = "UNKNOWN"
    /\ Snapshot.nodes[2].state = "PRIMARY"
    /\ Snapshot.primary_count = 1
    /\ Snapshot.replica_count = 0

\* C23: in every snapshot failover_ready is true exactly when there is one
\* primary, at least one replica and no unhealthy node; the branches on
\* the primary count never turn a false flag to true
C23_ReadyIffCounts ==
    /\ ~IsNone(health) =>
          (Snapshot.failover_ready <=>
              /\ Snapshot.primary_count = 1
              /\ Snapshot.replica_count >= 1
              /\ Snapshot.unhealthy_nodes = 0)
    /\ \A p \in 0 .. MaxNodes : ~RoleCountReady(FALSE, p)

\* a healthy standby still catching up, listed before a healthy primary
C23_Witness ==
    /\ Fetched
    /\ Snapshot.primary_count = 1
    /\ Snapshot.replica_count = 1
    /\ Snapshot.unhealthy_nodes = 0
    /\ Snapshot.failover_ready
    /\ Snapshot.nodes[1].state = "WAIT_STANDBY"

\* the alerts of an unreachable data source at time t
UnreachableAlerts(t) ==
    << [rule |-> "no_primary", severity |-> "critical", timestamp |-> t],
       [rule |-> "unhealthy_nodes", severity |-> "warning", timestamp |-> t],
       [rule |-> "failover_not_ready", severity |-> "info", timestamp |-> t] >>

\* C26: with an empty history, the snapshot of a failed topology read
\* yields exactly no_primary (critical), unhealthy_nodes (warning) and
\* failover_not_ready (info), in that order
C26_UnreachableAlerts ==
    [][CheckAlertsStep /\ EmptyHistory /\ Degraded =>
        alerts' = UnreachableAlerts(clock)]_vars

\* the first call of check_alerts, on the snapshot of a failed read
C26_Witness ==
    /\ pc = "alerted"
    /\ Degraded
    /\ alerts = UnreachableAlerts(clock)
    /\ \A n \in RuleNames : Len(emitted[n]) <= 1
    /\ emitted["multiple_primaries"] = <<>>

\* C22: one cycle at a time.  A cycle starts only at the top of the loop
\* with nothing of the previous cycle pending, the top is reached only from
\* a sleep, the sleep is reached only after every alert was dispatched and
\* the report written or through the except branch, alert_history changes
\* only inside check_alerts of the running cycle, and time passes only in
\* the sleeps
C22_OneCycleInFlight ==
    [][/\ pc' = "checked" =>
             pc = "idle" /\ IsNone(health) /\ alerts = <<>> /\ sent = <<>>
       /\ pc' = "idle" => pc = "sleeping"
       /\ pc' = "sleeping" =>
             \/ pc = "dispatched" /\ DOMAIN sent = DOMAIN alerts
             \/ sleep_for' = ErrorBackoff
       /\ alert_history' # alert_history => CheckAlertsStep
       /\ clock' # clock => pc = "sleeping"]_vars

\* the second cycle has begun, after a first cycle that fired alerts and
\* slept the poll interval
C22_Witness ==
    /\ pc = "checked"
    /\ clock = HealthCheckInterval
    /\ sleep_for = HealthCheckInterval
    /\ alert_history["no_primary"] = Some(0)

\* send_alert runs for the alerts of this cycle
DispatchStep == pc = "alerted" /\ pc' = "dispatched"

\* C25: the cooldown is recorded by check_alerts and dispatch does not touch
\* it: after send_alert has run, failed or not, the history entry of every
\* alert of the cycle is the time of the cycle, and a rule is emitted again
\* only when 300 s have passed since its entry
C25_CooldownIndependentOfDispatch ==
    [][/\ DispatchStep =>
             /\ alert_history' = alert_history
             /\ \A k \in DOMAIN alerts :
                   alert_history'[alerts[k].rule] = Some(clock)
       /\ CheckAlertsStep =>
             \A n \in RuleNames :
                 Returned(alerts', n) /\ ~IsNone(alert_history[n]) =>
                     clock - Val(alert_history[n]) >= 300]_vars

\* send_alert returned False for each of the three alerts of a cycle
C25_Witness ==
    /\ pc = "dispatched"
    /\ Len(alerts) = 3
    /\ \A k \in DOMAIN alerts :
          sent[k] = FALSE /\ alert_history[alerts[k].rule] = Some(clock)

\* the rules whose predicate holds on every snapshot of the outage
OutageRules == {"unhealthy_nodes", "failover_not_ready"}

\* the rule has fired once, early enough for the bounded clock to reach
\* the end of its cooldown and one more sleep
FiredOnce(n) ==
    /\ Len(emitted[n]) = 1
    /\ emitted[n][1] + 300 + ErrorBackoff <= MaxClock

\* the rule has fired again, in the first cycle after its cooldown
FiredAgain(n) ==
    /\ Len(emitted[n]) = 2
    /\ emitted[n][2] - emitted[n][1] >= 300
    /\ emitted[n][2] - emitted[n][1] < 300 + ErrorBackoff

\* C24: a rule whose predicate holds in every cycle fires in every cycle
\* that finds it outside its cooldown, and after a firing such a cycle
\* comes: the rule fires again, between 300 s and one sleep more than
\* 300 s after the firing
C24_FiresAgainAfterCooldown ==
    /\ [][CheckAlertsStep =>
            \A n \in OutageRules :
                OutsideCooldown(n) => Returned(alerts', n)]_vars
    /\ \A n \in OutageRules : FiredOnce(n) ~> FiredAgain(n)

\* unhealthy_nodes fired at 0 and again at 300
C24_Witness ==
    /\ pc = "alerted"
    /\ clock = 300
    /\ emitted["unhealthy_nodes"] = <<0, 300>>
    /\ Returned(alerts, "unhealthy_nodes")
    /\ Snapshot.unhealthy_nodes = 1

\* the entries of the snapshot that are in PRIMARY state
PrimaryEntries ==
    {i \in DOMAIN Snapshot.nodes : Snapshot.nodes[i].state = "PRIMARY"}

\* C27: when test_failover returns success, current_primary names the
\* single PRIMARY node of the snapshot readiness was decided on
C27_CurrentPrimaryIsThePrimary ==
    pc = "exited" /\ Val(result).success =>
        /\ Cardinality(PrimaryEntries) = 1
        /\ \A i \in PrimaryEntries :
              Val(result).current_primary = Some(Snapshot.nodes[i].name)

\* C28: no health check starts with a closed connection in the cache, and
\* a node that answers is never reported UNHEALTHY
C28_NoStaleConnection ==
    /\ pc = "idle" => \A n \in NodeNames : node_connections[n] # Some("closed")
    /\ Fetched =>
          \A i \in DOMAIN Rows :
              Rows[i].probe = "ok" => Snapshot.nodes[i].health = "HEALTHY"

====
